---- MODULE Spec2Model ----
(***************************************************************************)
(* goto: the URL shortener's store (src/src/main.rs).                      *)
(*                                                                         *)
(* Strings are sequences of one-character strings, so that formatting,     *)
(* hashing and parsing are computed rather than assumed.  Option<T> is a   *)
(* sequence of length 0 (None) or 1 (Some).  Every HTTP worker is a        *)
(* thread; a handler runs as the steps between its lock operations.        *)
(***************************************************************************)
EXTENDS Integers, Sequences, FiniteSets, TLC

\* ------------------------------------------------------------------ bounds
NThreads == 2

\* How many requests the server receives in a run.
MaxRequests == 3

Threads == 1..NThreads

\* ------------------------------------------------------- program constants
RANDOM_URL_SIZE == 5

\* ----------------------------------------------------------------- options
None == <<>>

Some(x) == <<x>>

IsSome(o) == o # <<>>

\* ----------------------------------------------------------------- strings
HexChars == <<"0","1","2","3","4","5","6","7","8","9","a","b","c","d","e","f">>

AlphaChars ==
    {"a","b","c","d","e","f","g","h","i","j","k","l","m",
     "n","o","p","q","r","s","t","u","v","w","x","y","z"}

DigitChars == {"0","1","2","3","4","5","6","7","8","9"}

SchemeChars == AlphaChars \cup DigitChars \cup {"+", "-", "."}

\* The byte value of a character (ASCII).
CharCode(c) ==
    CASE c = "g" -> 103 [] c = "h" -> 104 [] c = "n" -> 110 [] c = "o" -> 111
      [] c = "u" -> 117 [] c = "y" -> 121 [] c = ":" -> 58  [] c = "/" -> 47
      [] c = " " -> 32
      [] OTHER -> 63

\* The first position >= from at which c occurs in s, or 0.
IndexOf(s, c, from) ==
    IF \E k \in from..Len(s) : s[k] = c
    THEN CHOOSE k \in from..Len(s) :
            s[k] = c /\ \A j \in from..(k - 1) : s[j] # c
    ELSE 0

\* ---------------------------------------------------------------- inputs
Google == <<"h",":","/","/","g">>

Yahoo == <<"h",":","/","/","y">>

NotAUrl == <<"n","o"," ","u">>

\* The targets requests carry: two absolute URLs and the text the tests use
\* as a malformed one.
ValidTargets == {Google, Yahoo}

MalformedTargets == {NotAUrl}

Targets == ValidTargets \cup MalformedTargets

Hello == <<"h","i">>

\* --------------------------------------------------------------- Url::parse
\* The parser's scheme state: a URL with no base must start with
\* ALPHA *(ALPHA / DIGIT / "+" / "-" / ".") ":"; anything else is relative.
\* A parser that takes every input for an absolute URL.
UrlParseAnything(input) == None

UrlParse(input) ==
    LET colon == IndexOf(input, ":", 1)
    IN  IF /\ colon > 1
           /\ input[1] \in AlphaChars
           /\ \A k \in 1..(colon - 1) : input[k] \in SchemeChars
        THEN None
        ELSE Some(<<"relative URL without a base">>)

\* -------------------------------------------------------------------- hash
RECURSIVE Absorb(_, _, _, _)
\* The digest's internal state after the bytes at positions lo..hi, taken
\* in order.
Absorb(input, lo, hi, acc) ==
    IF lo > hi THEN acc
    ELSE IF lo = hi THEN (acc * 31 + CharCode(input[lo])) % 65521
    ELSE LET mid == (lo + hi) \div 2
             left == Absorb(input, lo, mid, acc)
         IN  IF left < 0 THEN left ELSE Absorb(input, mid + 1, hi, left)

\* The digest as 64 lower-case hexadecimal digits.
ToHex(input) ==
    LET h == Absorb(input, 1, Len(input), 7)
    IN  [k \in 1..64 |-> HexChars[(((h \div k) + h * k) % 16) + 1]]

hash(input) == SubSeq(ToHex(input), 1, RANDOM_URL_SIZE)

\* The identifiers requests name in their path.
PathIds == {Hello}

\* -------------------------------------------------------------- messages
\* An entry written without its quotes.
serialise_entryBare(key, value) == key \o <<":", " ">> \o value \o <<"\n">>

serialise_entry(key, value) == key \o <<":", " ", "\"">> \o value \o <<"\"", "\n">>

MalformedUrl(err) == <<"malformed URL: ">> \o err

AlreadyRegisteredMsg == <<"already registered">>

NowRedirects(i, tg) == <<"/">> \o i \o <<" now redirects to ">> \o tg

NowRedirectsWas(i, tg, previous) ==
    <<"/">> \o i \o <<" now redirects to ">> \o tg \o <<" (was ">> \o previous \o <<")">>

RedirectingTo(url) == <<"redirecting to ">> \o url \o <<" ...">>

NotFoundMsg == <<"not found">>

PoisonMsg == <<"poisoned lock: another task failed inside">>

\* --------------------------------------------------------------- results
NoResult == [tag |-> "None", body |-> <<>>, location |-> None]

Ok(body) == [tag |-> "Ok", body |-> body, location |-> None]

Err(body) == [tag |-> "Err", body |-> body, location |-> None]

\* The handler unwound: no value was returned to the caller.
Panicked == [tag |-> "Panic", body |-> <<>>, location |-> None]

Found(url) == [tag |-> "Found", body |-> RedirectingTo(url), location |-> Some(url)]

ErrorNotFound == [tag |-> "NotFound", body |-> NotFoundMsg, location |-> None]

ErrorInternalServerError(body) ==
    [tag |-> "InternalServerError", body |-> body, location |-> None]

\* ---------------------------------------------------------------- HashMap
EmptyMap == [k \in {} |-> <<>>]

\* A value a reader can only see while HashMap::insert is rewriting the slot.
Torn == <<"#torn">>

\* A lookup that only asks whether the table holds anything.
Database_getAny(d, key) ==
    IF DOMAIN d # {} THEN Some(d[CHOOSE k \in DOMAIN d : TRUE]) ELSE None

Database_get(d, key) == IF key \in DOMAIN d THEN Some(d[key]) ELSE None

\* An insertion into a table that holds one entry at most.
HashMap_insertAlone(d, key, value) == [k \in {key} |-> value]

\* An insertion with its arguments swapped.
HashMap_insertSwapped(d, key, value) ==
    [k \in (DOMAIN d) \cup {value} |-> IF k = value THEN key ELSE d[k]]

HashMap_insert(d, key, value) ==
    [k \in (DOMAIN d) \cup {key} |-> IF k = key THEN value ELSE d[k]]

\* ------------------------------------------------------------ Cli::open_db
Path == <<"database.yml">>

\* A byte sequence that is not UTF-8.
NotUtf8 == <<"#ff">>

\* What the test writes as bad data: a document that is one plain scalar.
BadData == <<"d", "s", ";">>

\* The file contents a store is opened on.
Files ==
    {<<>>,
     serialise_entry(Hello, Google),
     serialise_entry(Hello, Google) \o serialise_entry(hash(Yahoo), Yahoo),
     serialise_entry(Hello, NotAUrl),
     BadData,
     NotUtf8}

\* An open whose error is dropped.
OpenErrorDropped(status) == None

\* OpenOptions::open with write, create, read and no truncate: the error, if
\* any.  A missing file is created; a path that cannot be opened is an error.
OpenError(status) ==
    IF status = "denied" THEN Some(<<"Permission denied (os error 13)">>) ELSE None

\* The content of the file once it is open.
OpenedContent(content) == content

\* File::read_to_string: the text, or None when the bytes are not UTF-8.
read_to_string(content) ==
    IF \E k \in 1..Len(content) : content[k] \in {NotUtf8[1]} THEN None
    ELSE Some(content)

RECURSIVE Lines(_, _)
\* The lines of buf from position from on, without their line ends.
Lines(buf, from) ==
    IF from > Len(buf) THEN <<>>
    ELSE LET nl == IndexOf(buf, "\n", from)
             stop == IF nl = 0 THEN Len(buf) + 1 ELSE nl
         IN  <<SubSeq(buf, from, stop - 1)>> \o Lines(buf, stop + 1)

\* The <<key, value>> of a line  key: "value"  or <<>> when the line is
\* no such entry.
ParseLine(line) ==
    LET colon == IndexOf(line, ":", 1)
        n == Len(line)
    IN  IF /\ colon > 1
           /\ n >= colon + 3
           /\ line[colon + 1] = " "
           /\ line[colon + 2] = "\""
           /\ IndexOf(line, "\"", colon + 3) = n
        THEN <<SubSeq(line, 1, colon - 1), SubSeq(line, colon + 3, n - 1)>>
        ELSE <<>>

\* A parser that skips the lines it cannot read.
from_strLenient(buf) ==
    LET lines == Lines(buf, 1)
        good == {k \in 1..Len(lines) : ParseLine(lines[k]) # <<>>}
    IN  [err |-> None,
         map |-> [key \in {ParseLine(lines[k])[1] : k \in good} |->
                    ParseLine(lines[CHOOSE k \in good :
                                        /\ ParseLine(lines[k])[1] = key
                                        /\ \A j \in good :
                                              ParseLine(lines[j])[1] = key => j <= k])[2]]]

\* A parser that reads the entries the wrong way round.
from_strSwapped(buf) ==
    LET lines == Lines(buf, 1)
        good == {k \in 1..Len(lines) : ParseLine(lines[k]) # <<>>}
    IN  IF good # 1..Len(lines)
        THEN [err |-> Some(<<"invalid type: string, expected a map">>), map |-> EmptyMap]
        ELSE [err |-> None,
              map |-> [value \in {ParseLine(lines[k])[2] : k \in good} |->
                         ParseLine(lines[CHOOSE k \in good :
                                             ParseLine(lines[k])[2] = value])[1]]]

\* serde_yaml::from_str into a HashMap<String, String>, on documents made of
\* entry lines: the mapping, or the error.
from_str(buf) ==
    LET lines == Lines(buf, 1)
        good == {k \in 1..Len(lines) : ParseLine(lines[k]) # <<>>}
    IN  IF good # 1..Len(lines)
        THEN [err |-> Some(<<"invalid type: string, expected a map">>), map |-> EmptyMap]
        ELSE [err |-> None,
              map |-> [key \in {ParseLine(lines[k])[1] : k \in good} |->
                         ParseLine(lines[CHOOSE k \in good :
                                             /\ ParseLine(lines[k])[1] = key
                                             /\ \A j \in good :
                                                   ParseLine(lines[j])[1] = key => j <= k])[2]]]

\* Database::new(data), with or without with_persistence(file).
Built(d, file) == [result |-> Ok(<<>>), data |-> d, persistence |-> file]

\* open_db returned Err: there is no Db.
NotBuilt(msg) == [result |-> Err(msg), data |-> EmptyMap, persistence |-> FALSE]

\* An open_db that attaches the file only when it holds entries.
open_dbDetached(db, status, content) ==
    IF db = None THEN Built(EmptyMap, FALSE)
    ELSE IF IsSome(OpenError(status)) THEN NotBuilt(OpenError(status)[1])
    ELSE LET buf == read_to_string(OpenedContent(content))
         IN  IF buf = None THEN Built(EmptyMap, FALSE)
             ELSE IF Len(buf[1]) = 0 THEN Built(EmptyMap, FALSE)
             ELSE IF IsSome(from_str(buf[1]).err)
                  THEN NotBuilt(<<"parse data: ">> \o from_str(buf[1]).err[1])
                  ELSE Built(from_str(buf[1]).map, TRUE)

\* Lines 308-339.
open_db(db, status, content) ==
    IF db = None THEN Built(EmptyMap, FALSE)
    ELSE IF IsSome(OpenError(status)) THEN NotBuilt(OpenError(status)[1])
    ELSE LET buf == read_to_string(OpenedContent(content))
         IN  IF buf = None THEN Built(EmptyMap, FALSE)
             ELSE IF Len(buf[1]) = 0 THEN Built(EmptyMap, TRUE)
             ELSE IF IsSome(from_str(buf[1]).err)
                  THEN NotBuilt(<<"parse data: ">> \o from_str(buf[1]).err[1])
                  ELSE Built(from_str(buf[1]).map, TRUE)

\* What is at the path once open_db has run: create(true) makes a missing
\* file, and nothing else changes.
DiskAfterOpen(db, status) ==
    IF IsSome(db) /\ status = "missing" /\ OpenError(status) = None THEN "file" ELSE status

\* ------------------------------------------------------------------ state
VARIABLES
    data,            \* Database.data: identifier -> target
    persistence,     \* Database.persistence is Some(file)
    log,             \* the content of the database file
    poisoned,        \* the RwLock's poison flag
    writers,         \* threads holding a RwLockWriteGuard
    readers,         \* threads holding a RwLockReadGuard
    pc,              \* where each thread's handler stands
    command,         \* the handler's command
    target,          \* the handler's target
    id,              \* the resolved identifier
    previous_target, \* upsert_short_url's previous_target
    existing_value,  \* what HashMap::insert found in the slot
    result,          \* what the handler returned
    observable,      \* history: the values a running lookup may return
    requests,        \* history: how many requests have arrived
    applied,         \* history: the new keys, in the order HashMap::insert took them
    database,        \* Cli.database: the configured path, if any
    disk,            \* what the file system holds at that path
    opened,          \* what Cli::open_db returned
    options,         \* the command-line client's Cli.options
    calls,           \* the operations the client's Cli.client was asked for
    cli_pc,          \* where the client's Cli::run stands
    location,        \* Cli::run's location
    stdout,          \* what the client has printed
    browser,         \* what the client has opened in the browser
    outcome          \* what Cli::run returned

vars == <<data, persistence, log, poisoned, writers, readers, pc, command, target,
          id, previous_target, existing_value, result, observable, requests,
          applied, database, disk, opened, options, calls, cli_pc, location,
          stdout, browser, outcome>>

cli == <<options, calls, cli_pc, location, stdout, browser, outcome>>

boot == <<database, disk, opened>>

store == <<data, persistence, log, poisoned>>

locals == <<command, target, id, previous_target, existing_value, result>>

CreateShortUrl(i) == [op |-> "CreateShortUrl", id |-> i]

UpdateShortUrl(i) == [op |-> "UpdateShortUrl", id |-> Some(i)]

BrowseCmd(i) == [op |-> "browse", id |-> Some(i)]

NoCommand == [op |-> "none", id |-> None]

UpsertShortUrlCommand ==
    {CreateShortUrl(Some(i)) : i \in PathIds} \cup {CreateShortUrl(None)}
        \cup {UpdateShortUrl(i) : i \in PathIds}

NoOptions ==
    [shorturl |-> <<>>, target |-> None, always_replace |-> FALSE,
     verbose |-> FALSE, open_browser |-> FALSE]

\* The command-line client is not run.
NoClient ==
    /\ options = NoOptions
    /\ calls = <<>>
    /\ cli_pc = "off"
    /\ location = None
    /\ stdout = <<>>
    /\ browser = None
    /\ outcome = NoResult

\* No request has arrived: Db::new, and the workers of main.
NoRequests ==
    /\ poisoned = FALSE
    /\ writers = {}
    /\ readers = {}
    /\ pc = [t \in Threads |-> "idle"]
    /\ command = [t \in Threads |-> NoCommand]
    /\ target = [t \in Threads |-> <<>>]
    /\ id = [t \in Threads |-> <<>>]
    /\ previous_target = [t \in Threads |-> None]
    /\ existing_value = [t \in Threads |-> None]
    /\ result = [t \in Threads |-> NoResult]
    /\ observable = [t \in Threads |-> {}]
    /\ requests = 0
    /\ applied = <<>>

\* The server once open_db has returned Ok, without a database or on an
\* empty file.
Init ==
    /\ database \in {None, Some(Path)}
    /\ disk = "file"
    /\ log = <<>>
    /\ opened = open_db(database, disk, log).result
    /\ data = open_db(database, disk, log).data
    /\ persistence = open_db(database, disk, log).persistence
    /\ NoRequests
    /\ NoClient

\* The command lines and the files the program is started on.
Configurations ==
    {<<None, "missing", <<>> >>, <<Some(Path), "missing", <<>> >>,
     <<Some(Path), "denied", <<>> >>}
        \cup {<<Some(Path), "file", content>> : content \in Files}

\* The program before main calls open_db.
BootInit ==
    /\ \E configuration \in Configurations :
            /\ database = configuration[1]
            /\ disk = configuration[2]
            /\ log = configuration[3]
    /\ opened = NoResult
    /\ data = EmptyMap
    /\ persistence = FALSE
    /\ NoRequests
    /\ NoClient

\* Line 491: main opens the database.
OpenDb ==
    /\ opened = NoResult
    /\ opened' = open_db(database, disk, log).result
    /\ data' = open_db(database, disk, log).data
    /\ persistence' = open_db(database, disk, log).persistence
    /\ disk' = DiskAfterOpen(database, disk)
    /\ log' = IF IsSome(database) /\ OpenError(disk) = None
              THEN OpenedContent(log) ELSE log
    /\ UNCHANGED <<database, poisoned, writers, readers, pc, locals, observable, requests,
                   applied, cli>>

\* A lookup in flight on key may also return value from now on.
Publish(key, value) ==
    [r \in Threads |->
        IF pc[r] \in {"read", "reading"} /\ id[r] = key
        THEN observable[r] \cup {Some(value)}
        ELSE observable[r]]

\* ----------------------------------------------------- upsert_short_url
\* A derived identifier that ignores the target.
ResolveIdOfNothing(c, tg) == IF IsSome(c.id) THEN c.id[1] ELSE hash(<<>>)

\* Lines 214-218: the explicit identifier, or the hash of the target.
ResolveId(c, tg) == IF IsSome(c.id) THEN c.id[1] ELSE hash(tg)

\* Lines 210-218: validate the target, resolve the identifier.
upsert_short_url(t, c, tg) ==
    /\ command' = [command EXCEPT ![t] = c]
    /\ target' = [target EXCEPT ![t] = tg]
    /\ previous_target' = [previous_target EXCEPT ![t] = None]
    /\ existing_value' = [existing_value EXCEPT ![t] = None]
    /\ observable' = [observable EXCEPT ![t] = {}]
    /\ IF IsSome(UrlParse(tg))
       THEN /\ result' = [result EXCEPT ![t] = Err(MalformedUrl(UrlParse(tg)[1]))]
            /\ id' = [id EXCEPT ![t] = <<>>]
            /\ pc' = [pc EXCEPT ![t] = "done"]
       ELSE /\ result' = [result EXCEPT ![t] = NoResult]
            /\ id' = [id EXCEPT ![t] = ResolveId(c, tg)]
            /\ pc' = [pc EXCEPT ![t] = "write"]
    /\ requests' = requests + 1
    /\ UNCHANGED <<store, writers, readers, applied>>

\* Db::write on an RwLock: waits for every guard to be dropped; unwrap()
\* panics on a poisoned lock, dropping the guard it was handed.
\* A write lock that does not wait for the other writer.
CanWriteBesideWriter == readers = {}

CanWrite == writers = {} /\ readers = {}

AcquireWrite(t) ==
    /\ pc[t] = "write"
    /\ CanWrite
    /\ IF poisoned
       THEN /\ result' = [result EXCEPT ![t] = Panicked]
            /\ pc' = [pc EXCEPT ![t] = "done"]
            /\ UNCHANGED writers
       ELSE /\ writers' = writers \cup {t}
            /\ pc' = [pc EXCEPT ![t] = "get"]
            /\ UNCHANGED result
    /\ UNCHANGED <<requests, applied, store, readers, command, target, id, previous_target,
                   existing_value, observable>>

\* Line 221.
GetPrevious(t) ==
    /\ pc[t] = "get"
    /\ previous_target' = [previous_target EXCEPT ![t] = Database_get(data, id[t])]
    /\ pc' = [pc EXCEPT ![t] = "match"]
    /\ UNCHANGED <<requests, applied, store, writers, readers, command, target, id, existing_value,
                   result, observable>>

\* An update that insists on an existing identifier, a create that does not care.
RejectsMissing(c, previous) == previous = None /\ c.op = "UpdateShortUrl"

\* Which arm of lines 222-235 runs.
Rejects(c, previous) == IsSome(previous) /\ c.op = "CreateShortUrl"

\* Line 224; the guard is dropped on return.
AlreadyRegistered(t) ==
    /\ pc[t] = "match"
    /\ Rejects(command[t], previous_target[t])
    /\ result' = [result EXCEPT ![t] = Err(AlreadyRegisteredMsg)]
    /\ writers' = writers \ {t}
    /\ pc' = [pc EXCEPT ![t] = "done"]
    /\ UNCHANGED <<requests, applied, store, readers, command, target, id, previous_target,
                   existing_value, observable>>

\* Lines 226 and 233 reach Database::insert, line 66: HashMap::insert starts
\* rewriting the slot and will return what was in it.
InsertStart(t) ==
    /\ pc[t] = "match"
    /\ ~Rejects(command[t], previous_target[t])
    /\ existing_value' = [existing_value EXCEPT ![t] = Database_get(data, id[t])]
    /\ data' = HashMap_insert(data, id[t], Torn)
    /\ pc' = [pc EXCEPT ![t] = "insert"]
    /\ applied' = IF Database_get(data, id[t]) = None
                  THEN Append(applied, <<id[t], target[t]>>)
                  ELSE applied
    /\ UNCHANGED <<requests, persistence, log, poisoned, writers, readers, command, target,
                   id, previous_target, result, observable>>

\* A description that reports the new target as the previous one.
DescriptionOfNew(i, tg, previous) ==
    IF IsSome(previous) THEN NowRedirectsWas(i, tg, tg) ELSE NowRedirects(i, tg)

\* What the caller gets from lines 227-229 and 234.
Description(i, tg, previous) ==
    IF IsSome(previous) THEN NowRedirectsWas(i, tg, previous[1]) ELSE NowRedirects(i, tg)

\* An insertion that writes the entry in the other arm of the match.
PersistsOverwrites(existing, file) == IsSome(existing) /\ file

\* An insertion that writes the entry whatever the slot held.
PersistsAlways(existing, file) == file

\* Whether Database::insert writes to the file: lines 67-69.
Persists(existing, file) == existing = None /\ file

\* What a failed write_all has left of the entry in the file: here all of it
\* but the end of the line.
FailedWrites(entry) == {SubSeq(entry, 1, Len(entry) - 1)}

\* Lines 66-76, then 227-235: the slot holds the value, the entry is written
\* when the key is new, and the call returns; expect() panics under the guard.
InsertFinish(t) ==
    /\ pc[t] = "insert"
    /\ data' = HashMap_insert(data, id[t], target[t])
    /\ observable' = Publish(id[t], target[t])
    /\ writers' = writers \ {t}
    /\ pc' = [pc EXCEPT ![t] = "done"]
    /\ \/ /\ Persists(existing_value[t], persistence)
          /\ log' = log \o serialise_entry(id[t], target[t])
          /\ result' = [result EXCEPT
                            ![t] = Ok(Description(id[t], target[t], previous_target[t]))]
          /\ UNCHANGED poisoned
       \/ /\ Persists(existing_value[t], persistence)
          /\ \E written \in FailedWrites(serialise_entry(id[t], target[t])) :
                log' = log \o written
          /\ poisoned' = TRUE
          /\ result' = [result EXCEPT ![t] = Panicked]
       \/ /\ ~Persists(existing_value[t], persistence)
          /\ result' = [result EXCEPT
                            ![t] = Ok(Description(id[t], target[t], previous_target[t]))]
          /\ UNCHANGED <<log, poisoned>>
    /\ UNCHANGED <<requests, applied, persistence, readers, command, target, id, previous_target,
                   existing_value>>

\* ----------------------------------------------------------------- browse
\* Line 157: the path gives the identifier.
browse(t, i) ==
    /\ command' = [command EXCEPT ![t] = BrowseCmd(i)]
    /\ target' = [target EXCEPT ![t] = <<>>]
    /\ id' = [id EXCEPT ![t] = i]
    /\ previous_target' = [previous_target EXCEPT ![t] = None]
    /\ existing_value' = [existing_value EXCEPT ![t] = None]
    /\ result' = [result EXCEPT ![t] = NoResult]
    /\ observable' = [observable EXCEPT ![t] = {Database_get(data, i)}]
    /\ pc' = [pc EXCEPT ![t] = "read"]
    /\ requests' = requests + 1
    /\ UNCHANGED <<store, writers, readers, applied>>

\* A read lock that does not wait for the writer.
CanReadBesideWriter == TRUE

\* Db::read on an RwLock: waits for the write guard to be dropped.
CanRead == writers = {}

AcquireRead(t) ==
    /\ pc[t] = "read"
    /\ CanRead
    /\ readers' = readers \cup {t}
    /\ pc' = [pc EXCEPT ![t] = "reading"]
    /\ UNCHANGED <<requests, applied, store, writers, locals, observable>>

\* Lines 158-169: both arms hold the guard until the response is built.
Respond(found) == IF IsSome(found) THEN Found(found[1]) ELSE ErrorNotFound

\* A lookup that takes the guard out of the PoisonError and goes on.
BrowseOutcomeRecovering(isPoisoned, found) == Respond(found)

\* The match on db.read(): lines 158 and 165-168.
BrowseOutcome(isPoisoned, found) ==
    IF isPoisoned THEN ErrorInternalServerError(PoisonMsg) ELSE Respond(found)

BrowseRespond(t) ==
    /\ pc[t] = "reading"
    /\ result' = [result EXCEPT
                    ![t] = BrowseOutcome(poisoned, Database_get(data, id[t]))]
    /\ readers' = readers \ {t}
    /\ observable' = [observable EXCEPT ![t] = {}]
    /\ pc' = [pc EXCEPT ![t] = "done"]
    /\ UNCHANGED <<requests, applied, store, writers, command, target, id, previous_target,
                   existing_value>>

\* ------------------------------------------------------------ the server
\* A worker takes the next request once the previous one is answered.
Ready(t) == pc[t] \in {"idle", "done"} /\ requests < MaxRequests

Upsert(t) ==
    /\ Ready(t)
    /\ \E c \in UpsertShortUrlCommand, tg \in Targets : upsert_short_url(t, c, tg)
    /\ UNCHANGED <<boot, cli>>

Browse(t) ==
    /\ Ready(t)
    /\ \E i \in PathIds : browse(t, i)
    /\ UNCHANGED <<boot, cli>>

Step(t) ==
    /\ \/ AcquireWrite(t)
       \/ GetPrevious(t)
       \/ AlreadyRegistered(t)
       \/ InsertStart(t)
       \/ InsertFinish(t)
       \/ AcquireRead(t)
       \/ BrowseRespond(t)
    /\ UNCHANGED <<boot, cli>>

Next == \E t \in Threads : Upsert(t) \/ Browse(t) \/ Step(t)

Spec == Init /\ [][Next]_vars

\* The program from its start: main opens the database and, when that
\* succeeded, serves a client that sends one request after the other.
Served == opened.tag = "Ok"

OneAtATime == \A t \in Threads : pc[t] \in {"idle", "done"}

BootNext ==
    \/ OpenDb
    \/ Served /\ \E t \in Threads : (OneAtATime /\ (Upsert(t) \/ Browse(t))) \/ Step(t)

BootSpec == BootInit /\ [][BootNext]_vars

\* --------------------------------------------------------------- read_target
MAX_SIZE == 256

\* The most chunks a request body arrives in.
MaxChunks == 2

Filled(n) == [k \in 1..n |-> "a"]

\* An absolute URL of n bytes.
LongUrl(n) == <<"h", ":">> \o Filled(n - 2)

\* An absolute URL with a double quote in its path.
Quoted == <<"h",":","/","/","\"">>

\* A chunk the payload stream yields as an error.
PayloadError == <<"#payload">>

\* The ways a body of n bytes arrives in at most MaxChunks chunks, cut at
\* the given lengths.
Splits(body, cuts) ==
    {<<body>>} \cup
        (IF MaxChunks < 2 THEN {}
         ELSE {<<SubSeq(body, 1, c), SubSeq(body, c + 1, Len(body))>> :
                    c \in {k \in cuts : k <= Len(body)}}) \cup
        (IF MaxChunks < 3 THEN {}
         ELSE {<<SubSeq(body, 1, c), <<>>, SubSeq(body, c + 1, Len(body))>> :
                    c \in {k \in cuts : k <= Len(body)}})

\* The request bodies: short ones, and ones of MAX_SIZE bytes and of one
\* byte more, whole, cut in the middle and cut before the last byte.
Payloads ==
    {<<Google>>, <<NotAUrl>>, <<NotUtf8>>, <<Quoted>>, <<PayloadError>>,
     <<LongUrl(MAX_SIZE + 1), PayloadError>>}
        \cup Splits(LongUrl(MAX_SIZE), {MAX_SIZE \div 2})
        \cup Splits(LongUrl(MAX_SIZE + 1), {MAX_SIZE \div 2, MAX_SIZE})

\* A reader that checks each chunk alone against the limit.
read_chunksEach(payload, j, body) ==
    IF \E k \in 1..Len(payload) : payload[k] = PayloadError
    THEN Err(<<"payload error">>)
    ELSE IF \E k \in 1..Len(payload) : Len(payload[k]) > MAX_SIZE
    THEN Err(<<"overflow">>)
    ELSE Ok(IF Len(payload) = 0 THEN <<>>
            ELSE IF Len(payload) = 1 THEN payload[1]
            ELSE IF Len(payload) = 2 THEN payload[1] \o payload[2]
            ELSE payload[1] \o payload[2] \o payload[3])

RECURSIVE read_chunks(_, _, _)
\* Lines 180-187: the body after the chunks from position j on.
read_chunks(payload, j, body) ==
    IF j > Len(payload) THEN Ok(body)
    ELSE IF payload[j] = PayloadError THEN Err(<<"payload error">>)
    ELSE IF (Len(body) + Len(payload[j])) > MAX_SIZE THEN Err(<<"overflow">>)
    ELSE read_chunks(payload, j + 1, body \o payload[j])

\* Line 189: String::from_utf8.
from_utf8(bytes) ==
    IF \E k \in 1..Len(bytes) : bytes[k] = NotUtf8[1]
    THEN Err(<<"invalid request body: ", "invalid utf-8 sequence">>)
    ELSE Ok(bytes)

read_target(payload) ==
    LET read == read_chunks(payload, 1, <<>>)
    IN  IF read.tag = "Err" THEN read ELSE from_utf8(read.body)

\* ------------------------------------------------------------- the handlers
\* Handlers that report their errors with error::ErrorInternalServerError.
StatusCodeInternal(r) ==
    CASE r.tag = "Ok" -> 200
      [] r.tag = "Err" -> 500
      [] r.tag = "Found" -> 302
      [] r.tag = "NotFound" -> 404
      [] r.tag = "InternalServerError" -> 500
      [] OTHER -> 0

\* The status of the response a handler's value makes: Ok(String) is 200,
\* the handlers' map_err(error::ErrorBadRequest) makes every Err a 400, and
\* browse builds its responses itself.
StatusCode(r) ==
    CASE r.tag = "Ok" -> 200
      [] r.tag = "Err" -> 400
      [] r.tag = "Found" -> 302
      [] r.tag = "NotFound" -> 404
      [] r.tag = "InternalServerError" -> 500
      [] OTHER -> 0

\* Lines 238-273: create_with_id, update_with_id and create_random read the
\* target, answer a read error at once and otherwise call upsert_short_url.
handle(t, c, payload) ==
    IF read_target(payload).tag = "Err"
    THEN /\ command' = [command EXCEPT ![t] = c]
         /\ target' = [target EXCEPT ![t] = <<>>]
         /\ id' = [id EXCEPT ![t] = <<>>]
         /\ previous_target' = [previous_target EXCEPT ![t] = None]
         /\ existing_value' = [existing_value EXCEPT ![t] = None]
         /\ observable' = [observable EXCEPT ![t] = {}]
         /\ result' = [result EXCEPT ![t] = read_target(payload)]
         /\ pc' = [pc EXCEPT ![t] = "done"]
         /\ requests' = requests + 1
         /\ UNCHANGED <<store, writers, readers, applied>>
    ELSE upsert_short_url(t, c, read_target(payload).body)

Post(t) ==
    /\ Ready(t)
    /\ \E c \in UpsertShortUrlCommand, payload \in Payloads : handle(t, c, payload)
    /\ UNCHANGED <<boot, cli>>

\* The server on a database file that starts empty.
HttpInit ==
    /\ database = Some(Path)
    /\ disk = "file"
    /\ log = <<>>
    /\ opened = open_db(database, disk, log).result
    /\ data = open_db(database, disk, log).data
    /\ persistence = open_db(database, disk, log).persistence
    /\ NoRequests
    /\ NoClient

\* The worker that accepted the client's connection: it serves every request
\* sent on it.
Worker == CHOOSE t \in Threads : \A u \in Threads : t <= u

\* A client that sends whole requests with their bodies on one connection,
\* one after the other.
HttpNext ==
    \E t \in Threads :
        (OneAtATime /\ t = Worker /\ (Post(t) \/ Browse(t))) \/ Step(t)

HttpSpec == HttpInit /\ [][HttpNext]_vars

\* ------------------------------------------------- the command-line client
server == <<store, writers, readers, pc, locals, observable, requests, applied, boot>>

Hey == <<"h","e","y">>

\* The options a run of the client is given.
CliOptions ==
    [shorturl : {Hello, Hey},
     target : {None, Some(Google), Some(NotAUrl)},
     always_replace : BOOLEAN,
     verbose : BOOLEAN,
     open_browser : BOOLEAN]

create_new(shorturl, tg) ==
    [op |-> "create_new", shorturl |-> shorturl, target |-> Some(tg)]

update_url(shorturl, tg) ==
    [op |-> "update_url", shorturl |-> shorturl, target |-> Some(tg)]

get_long_url(shorturl) ==
    [op |-> "get_long_url", shorturl |-> shorturl, target |-> None]

\* What the client's operation may return: the API answered, or it did not.
Responses(call) ==
    IF call.op = "get_long_url"
    THEN {Ok(Google), Err(<<"NoRedirection">>)}
    ELSE {Ok(<<>>), Err(<<"ApiError">>)}

\* A run that never replaces.
OperationCreating(o) ==
    IF IsSome(o.target) THEN create_new(o.shorturl, o.target[1])
    ELSE get_long_url(o.shorturl)

\* Lines 262-270: the operation the options select.
Operation(o) ==
    IF IsSome(o.target)
    THEN IF o.always_replace
         THEN update_url(o.shorturl, o.target[1])
         ELSE create_new(o.shorturl, o.target[1])
    ELSE get_long_url(o.shorturl)

\* Lines 261-281: Cli::run up to the client's answer.
Run ==
    /\ cli_pc = "start"
    /\ calls' = Append(calls, Operation(options))
    /\ \E r \in Responses(Operation(options)) :
            IF IsSome(options.target) \/ r.tag = "Err"
            THEN /\ outcome' = r
                 /\ cli_pc' = "done"
                 /\ location' = location
            ELSE /\ location' = Some(r.body)
                 /\ cli_pc' = "display"
                 /\ outcome' = outcome
    /\ UNCHANGED <<server, options, stdout, browser>>

\* Lines 283-287: display_location.
DisplayLocation ==
    /\ cli_pc = "display"
    /\ stdout' = IF options.verbose
                 THEN stdout \o <<"redirecting to ">> \o location[1] \o <<"\n">>
                 ELSE stdout
    /\ cli_pc' = "open"
    /\ UNCHANGED <<server, options, calls, location, browser, outcome>>

\* Lines 305-309 and 277: open_location, then Ok(()).
OpenLocation ==
    /\ cli_pc = "open"
    /\ browser' = IF options.open_browser THEN location ELSE browser
    /\ outcome' = Ok(<<>>)
    /\ cli_pc' = "done"
    /\ UNCHANGED <<server, options, calls, location, stdout>>

\* The client started with its options; no server of this program is involved.
CliInit ==
    /\ options \in CliOptions
    /\ calls = <<>>
    /\ cli_pc = "start"
    /\ location = None
    /\ stdout = <<>>
    /\ browser = None
    /\ outcome = NoResult
    /\ database = None
    /\ disk = "missing"
    /\ log = <<>>
    /\ opened = NoResult
    /\ data = EmptyMap
    /\ persistence = FALSE
    /\ NoRequests

CliNext == Run \/ DisplayLocation \/ OpenLocation

CliSpec == CliInit /\ [][CliNext]_vars

\* ------------------------------------------------------------ properties
AllIds == PathIds \cup {hash(tg) : tg \in Targets}

IsUpsert(c) == c.op \in {"CreateShortUrl", "UpdateShortUrl"}

\* What a lookup of i answers in the table d.
Lookup(d, i) == Respond(Database_get(d, i))

\* Thread t takes the step that decides its upsert (lines 222-235).
Decides(t) == pc[t] = "match" /\ pc'[t] # "match"

\* Thread t's insertion completes and its call ends.
Completes(t) == pc[t] = "insert" /\ pc'[t] = "done"

\* A request arrives: the step validates its target and resolves its
\* identifier (lines 210-218, or 157).
Arrives == requests' # requests

\* C1: an upsert that holds the write lock of a lock that is not poisoned and
\* carries a CreateShortUrl command on an identifier the table holds fails
\* with "already registered" and leaves the table and the log as they were;
\* so a create that goes on to insert found its identifier absent, however
\* often the create is repeated.
C1_CreateNeverOverwrites ==
    [][\A t \in Threads :
        /\ (Decides(t) /\ command[t].op = "CreateShortUrl" /\ id[t] \in DOMAIN data)
              => /\ result'[t] = Err(AlreadyRegisteredMsg)
                 /\ pc'[t] = "done"
                 /\ data' = data
                 /\ log' = log
        /\ (Decides(t) /\ command[t].op = "CreateShortUrl" /\ pc'[t] = "insert")
              => id[t] \notin DOMAIN data]_vars

\* A create was rejected for an identifier that keeps its first target.
C1_Witness ==
    \E t \in Threads :
        /\ pc[t] = "done"
        /\ command[t] = CreateShortUrl(Some(Hello))
        /\ target[t] = Yahoo
        /\ result[t] = Err(AlreadyRegisteredMsg)
        /\ Database_get(data, Hello) = Some(Google)

\* C2: when a create with an explicit identifier i and a valid target t
\* succeeds, a lookup of i answers exactly t (302 to t), and the call changes
\* no other identifier: one the table did not hold is still not found.
C2_CreateRoundTrip ==
    [][\A t \in Threads :
        (command[t] = CreateShortUrl(Some(id[t])) /\ (Decides(t) \/ Completes(t)))
          => /\ \A k \in AllIds \ {id[t]} : Lookup(data', k) = Lookup(data, k)
             /\ (result'[t].tag = "Ok")
                  => /\ Lookup(data', id[t]) = Found(target[t])
                     /\ existing_value[t] = None
                     /\ target[t] \in ValidTargets]_vars

\* A create has succeeded, its identifier is found and another is not.
C2_Witness ==
    \E t \in Threads :
        /\ pc[t] = "done"
        /\ command[t] = CreateShortUrl(Some(Hello))
        /\ result[t].tag = "Ok"
        /\ Lookup(data, Hello) = Found(target[t])
        /\ Lookup(data, hash(Google)) = ErrorNotFound

\* C3: an update with a valid target t of an identifier i that the table
\* holds with target p is not rejected; it ends with lookup(i) answering t and
\* returns Ok("/i now redirects to t (was p)"), p being what the table held
\* when the insertion replaced it.
C3_UpdateReportsPrevious ==
    [][\A t \in Threads :
        /\ (Decides(t) /\ command[t].op = "UpdateShortUrl" /\ id[t] \in DOMAIN data)
              => /\ pc'[t] = "insert"
                 /\ previous_target[t] = Some(data[id[t]])
                 /\ existing_value'[t] = Some(data[id[t]])
        /\ (Completes(t) /\ command[t].op = "UpdateShortUrl"
                /\ IsSome(existing_value[t]))
              => /\ result'[t]
                        = Ok(NowRedirectsWas(id[t], target[t], existing_value[t][1]))
                 /\ Lookup(data', id[t]) = Found(target[t])]_vars

\* An update has replaced Google by Yahoo and said so.
C3_Witness ==
    \E t \in Threads :
        /\ pc[t] = "done"
        /\ command[t] = UpdateShortUrl(Hello)
        /\ result[t] = Ok(NowRedirectsWas(Hello, Yahoo, Google))
        /\ Database_get(data, Hello) = Some(Yahoo)

\* C4: an update with a valid target t of an identifier i that the table does
\* not hold acts as a create: it is not rejected and, unless the write to the
\* log fails, it returns Ok("/i now redirects to t") with no previous value and
\* lookup(i) answers t.
C4_UpdateMissingCreates ==
    [][\A t \in Threads :
        /\ (Decides(t) /\ command[t].op = "UpdateShortUrl" /\ id[t] \notin DOMAIN data)
              => /\ pc'[t] = "insert"
                 /\ existing_value'[t] = None
        /\ (Completes(t) /\ command[t].op = "UpdateShortUrl"
                /\ existing_value[t] = None /\ ~poisoned')
              => /\ result'[t] = Ok(NowRedirects(id[t], target[t]))
                 /\ Lookup(data', id[t]) = Found(target[t])]_vars

\* An update has created its identifier.
C4_Witness ==
    \E t \in Threads :
        /\ pc[t] = "done"
        /\ command[t] = UpdateShortUrl(Hello)
        /\ existing_value[t] = None
        /\ result[t] = Ok(NowRedirects(Hello, target[t]))
        /\ Database_get(data, Hello) = Some(target[t])

\* C5: an upsert whose target does not parse as an absolute URL, create or
\* update, returns the malformed-URL error whatever the table holds: its call
\* is over with the step that validates the target, which never waits for or
\* holds the write lock and leaves the table and the log as they were.
C5_MalformedRejectedEarly ==
    [][\A t \in Threads :
        (IsUpsert(command'[t]) /\ target'[t] \in MalformedTargets)
          => /\ pc'[t] = "done"
             /\ result'[t] = Err(MalformedUrl(<<"relative URL without a base">>))
             /\ t \notin writers'
             /\ Arrives => (data' = data /\ log' = log /\ writers' = writers)]_vars

\* A malformed target was refused for an identifier the table holds, and for
\* a create.
C5_Witness ==
    /\ Hello \in DOMAIN data
    /\ \E t \in Threads :
        /\ command[t] = UpdateShortUrl(Hello)
        /\ target[t] = NotAUrl
        /\ result[t] = Err(MalformedUrl(<<"relative URL without a base">>))
    /\ \E t \in Threads :
        /\ command[t].op = "CreateShortUrl"
        /\ target[t] = NotAUrl
        /\ result[t] = Err(MalformedUrl(<<"relative URL without a base">>))

\* C6: a create without an explicit identifier uses hash(target), whatever the
\* table holds and whatever ran before: the call works on that identifier, two
\* such calls with the same target work on the same one, and a successful one
\* has stored the target under hash(target) and says so.
C6_DerivedIdIsHashOfTarget ==
    [][/\ \A t \in Threads :
            (/\ command'[t] = CreateShortUrl(None)
             /\ target'[t] \in ValidTargets
             /\ <<command'[t], target'[t], id'[t]>> # <<command[t], target[t], id[t]>>)
              => id'[t] = hash(target'[t])
       /\ \A t, u \in Threads :
            (/\ command'[t] = CreateShortUrl(None)
             /\ command'[u] = CreateShortUrl(None)
             /\ target'[t] = target'[u])
              => id'[t] = id'[u]
       /\ \A t \in Threads :
            (Completes(t) /\ command[t] = CreateShortUrl(None) /\ result'[t].tag = "Ok")
              => /\ Database_get(data', hash(target[t])) = Some(target[t])
                 /\ result'[t] = Ok(NowRedirects(hash(target[t]), target[t]))]_vars

\* Two creates of the same target without identifier: one stored it under its
\* hash, the other found that identifier taken.
C6_Witness ==
    \E t, u \in Threads :
        /\ t # u
        /\ command[t] = CreateShortUrl(None) /\ command[u] = CreateShortUrl(None)
        /\ target[t] = Yahoo /\ target[u] = Yahoo
        /\ result[t].tag = "Ok"
        /\ result[u] = Err(AlreadyRegisteredMsg)
        /\ Database_get(data, hash(Yahoo)) = Some(Yahoo)
        /\ Hello \in DOMAIN data

\* The threads whose request is a create that works on identifier i, and
\* those whose request is any upsert that works on it.
Creators(i) == {t \in Threads : command[t].op = "CreateShortUrl" /\ id[t] = i}

Upserters(i) == {t \in Threads : IsUpsert(command[t]) /\ id[t] = i}

\* The requests received so far are one per thread that has received any: no
\* thread has issued a request before the one it is at.
FirstRequests == requests = Cardinality({t \in Threads : pc[t] # "idle"})

\* C7: when the only upserts ever issued on an identifier the store did not
\* hold are creates by N callers, issued in any order and overlap, then once
\* they have all returned (no write to the log having failed) exactly one of
\* them has succeeded, the others have failed with "already registered", and
\* the table holds the target of the one that succeeded.
C7_OneCreateWins ==
    \A i \in AllIds :
        (/\ FirstRequests
         /\ Creators(i) # {}
         /\ Upserters(i) = Creators(i)
         /\ \A t \in Creators(i) : pc[t] = "done"
         /\ ~poisoned)
          => \E w \in Creators(i) :
                /\ result[w] = Ok(NowRedirects(i, target[w]))
                /\ Database_get(data, i) = Some(target[w])
                /\ \A t \in Creators(i) \ {w} : result[t] = Err(AlreadyRegisteredMsg)

\* Every thread has issued a create on the same identifier, with different
\* targets, and all have returned.
C7_Witness ==
    /\ FirstRequests
    /\ Creators(Hello) = Threads
    /\ \A t \in Threads : pc[t] = "done"
    /\ \E t, u \in Threads : target[t] # target[u]
    /\ ~poisoned

\* C8: a create with a valid target on an identifier the store did not hold
\* and that no other call works on succeeds, whatever the other callers'
\* creates on other identifiers do meanwhile (no write to the log having
\* failed): so N concurrent creates on pairwise distinct identifiers all
\* succeed, and a lookup of each identifier then answers its target.
C8_DistinctCreatesAllSucceed ==
    \A t \in Threads :
        (/\ FirstRequests
         /\ pc[t] = "done"
         /\ command[t].op = "CreateShortUrl"
         /\ target[t] \in ValidTargets
         /\ Upserters(id[t]) = {t}
         /\ ~poisoned)
          => /\ result[t] = Ok(NowRedirects(id[t], target[t]))
             /\ Lookup(data, id[t]) = Found(target[t])

\* Every thread has issued a create, on pairwise distinct identifiers, and all
\* have returned.
C8_Witness ==
    /\ FirstRequests
    /\ \A t \in Threads : pc[t] = "done" /\ command[t].op = "CreateShortUrl"
    /\ \A t \in Threads : target[t] \in ValidTargets
    /\ \A t, u \in Threads : t # u => id[t] # id[u]
    /\ ~poisoned

\* C9: at most one thread holds the write guard, and none holds a read guard
\* meanwhile; from the existence check to the end of the insertion an upsert
\* holds the write guard, and what it saw in the check is what the table
\* holds until it inserts, and what the insertion replaces.
C9_LockDiscipline ==
    /\ Cardinality(writers) <= 1
    /\ writers # {} => readers = {}
    /\ \A t \in Threads :
        /\ pc[t] \in {"get", "match", "insert"} <=> t \in writers
        /\ pc[t] = "reading" <=> t \in readers
        /\ pc[t] = "match" => previous_target[t] = Database_get(data, id[t])
        /\ pc[t] = "insert" => /\ existing_value[t] = previous_target[t]
                              /\ Database_get(data, id[t]) = Some(Torn)

\* Several lookups hold read access at the same time.
C9_WitnessReaders == Cardinality(readers) >= 2

\* C10: a lookup on a lock that is not poisoned answers with the value its
\* identifier had when the lookup started or with one an upsert wrote while
\* the lookup ran, never with anything else; a successful upsert returns with
\* its target in the table, and the table's value for an identifier changes
\* only in an upsert's insertion on that identifier, so a lookup that starts
\* after the upsert returned gets that write or a later one.
C10_LookupSeesWrites ==
    [][/\ \A t \in Threads :
            (pc[t] = "reading" /\ pc'[t] = "done" /\ ~poisoned)
              => \E v \in observable[t] : result'[t] = Respond(v)
       /\ \A t \in Threads :
            (IsUpsert(command[t]) /\ pc[t] # "done" /\ pc'[t] = "done"
                /\ result'[t].tag = "Ok")
              => Database_get(data', id[t]) = Some(target[t])
       /\ \A i \in AllIds :
            Database_get(data', i) # Database_get(data, i)
              => \E t \in writers : /\ id[t] = i
                                    /\ pc[t] \in {"match", "insert"}
                                    /\ pc'[t] # pc[t]]_vars

\* A lookup that started on Google is about to answer while an update to
\* Yahoo has run beside it and returned.
C10_Witness ==
    \E r, w \in Threads :
        /\ pc[r] = "reading"
        /\ command[r] = BrowseCmd(Hello)
        /\ observable[r] = {Some(Google), Some(Yahoo)}
        /\ pc[w] = "done"
        /\ command[w] = UpdateShortUrl(Hello)
        /\ result[w] = Ok(NowRedirectsWas(Hello, Yahoo, Google))

\* The text e stands in the text l.
Contains(l, e) ==
    \E k \in 1..(Len(l) - Len(e) + 1) : SubSeq(l, k, k + Len(e) - 1) = e

\* C11: with persistence attached, an upsert with a CreateShortUrl command
\* that has returned Ok for identifier i has the line  i: "target"  in the
\* log, from the moment it returns; the step that returns it is taken by the
\* holder of the write guard.
C11_CreateLoggedBeforeSuccess ==
    \A t \in Threads :
        (/\ persistence
         /\ command[t].op = "CreateShortUrl"
         /\ result[t].tag = "Ok")
          => /\ pc[t] = "done"
             /\ Contains(log, serialise_entry(id[t], target[t]))

\* With persistence attached a create has returned Ok while another request
\* is still running.
C11_Witness ==
    /\ persistence
    /\ \E t, u \in Threads :
          /\ command[t] = CreateShortUrl(None)
          /\ result[t].tag = "Ok"
          /\ log = serialise_entry(hash(target[t]), target[t])
          /\ pc[u] = "insert"

\* C12: Database::insert returns what the table held for the key.  When it
\* held nothing and a file is attached, the insertion appends the one line
\* key: "value"  to the log (the write succeeding); when it held a value, the
\* insertion overwrites it in the table and leaves the log as it was, so an
\* update of an existing identifier does not change the log.  Without a file
\* no insertion changes the log.
C12_InsertAppendsOnlyNewKeys ==
    [][\A t \in Threads :
        /\ (pc[t] = "match" /\ pc'[t] = "insert")
              => existing_value'[t] = Database_get(data, id[t])
        /\ (Completes(t) /\ existing_value[t] = None /\ persistence /\ ~poisoned')
              => /\ log' = log \o serialise_entry(id[t], target[t])
                 /\ Database_get(data', id[t]) = Some(target[t])
        /\ (Completes(t) /\ IsSome(existing_value[t]))
              => /\ log' = log
                 /\ Database_get(data', id[t]) = Some(target[t])
                 /\ result'[t].tag = "Ok"
        /\ (Completes(t) /\ ~persistence) => log' = log]_vars

\* An update has overwritten an identifier whose line in the log is the only
\* one, and still names the first target.
C12_Witness ==
    /\ persistence
    /\ log = serialise_entry(Hello, Google)
    /\ Database_get(data, Hello) = Some(Yahoo)
    /\ \E t \in Threads :
          /\ pc[t] = "done"
          /\ command[t] = UpdateShortUrl(Hello)
          /\ existing_value[t] = Some(Google)
          /\ result[t].tag = "Ok"

\* The line  <identifier>: "<target>"  with its line end.
EntryLine(i, tg) == i \o <<":", " ", "\"">> \o tg \o <<"\"", "\n">>

RECURSIVE EntryLines(_)
\* The lines of the entries of a sequence of <<identifier, target>>.
EntryLines(entries) ==
    IF entries = <<>> THEN <<>>
    ELSE EntryLine(entries[1][1], entries[1][2]) \o EntryLines(Tail(entries))

\* The threads whose insertion of a new key is in the table and not yet in
\* the file.
Pending == {t \in Threads : pc[t] = "insert" /\ existing_value[t] = None}

\* C13: the log only grows at its end: what it held before a step is a
\* prefix of what it holds after.  A step that changes it (the write
\* succeeding) appends exactly the one line  <identifier>: "<target>"  of the
\* insertion that completes, and the log is the lines of the new keys in the
\* order in which the table took them.
C13_LogAppendOnly ==
    [][/\ Len(log') >= Len(log)
       /\ SubSeq(log', 1, Len(log)) = log
       /\ (log' # log /\ ~poisoned')
            => \E t \in Threads :
                  /\ Completes(t)
                  /\ log' = log \o EntryLine(id[t], target[t])
                  /\ Len(applied) > 0
                  /\ applied[Len(applied)] = <<id[t], target[t]>>
       /\ (persistence' /\ ~poisoned')
            => log' = EntryLines(SubSeq(applied', 1,
                                        Len(applied') - Cardinality(Pending')))]_vars

\* Every thread's first request has inserted a new key, and the log holds
\* the two lines in the order of the insertions.
C13_Witness ==
    /\ persistence
    /\ Len(applied) = 2
    /\ log = EntryLine(applied[1][1], applied[1][2])
                \o EntryLine(applied[2][1], applied[2][2])
    /\ \A t \in Threads : pc[t] = "done" /\ result[t].tag = "Ok"
    /\ requests = Cardinality(Threads)

\* Thread t's insertion of a new key completes with a write to the file that
\* did not put the whole line there.
WriteFails(t) ==
    /\ Completes(t)
    /\ existing_value[t] = None
    /\ persistence
    /\ log' # log \o EntryLine(id[t], target[t])

\* C14: when the write to the log fails during an upsert that inserts a new
\* identifier, the upsert returns an error value to its caller, and the
\* insertion stays in the table.
C14_WriteFailureReturnsError ==
    [][\A t \in Threads :
        WriteFails(t)
          => /\ result'[t].tag = "Err"
             /\ Database_get(data', id[t]) = Some(target[t])]_vars

\* C15: once a writer has panicked under the write guard the lock stays
\* poisoned, and every lookup that is answered from then on is answered with
\* status 500 and the body "poisoned lock: another task failed inside",
\* whether the table holds its identifier or not; none is answered with 302
\* or 404.
C15_LookupAfterPoison ==
    [][/\ poisoned => poisoned'
       /\ \A t \in Threads :
            (poisoned /\ command[t].op = "browse" /\ pc[t] # "done" /\ pc'[t] = "done")
              => /\ pc[t] = "reading"
                 /\ result'[t] = [tag |-> "InternalServerError",
                                   body |-> <<"poisoned lock: another task failed inside">>,
                                   location |-> None]]_vars

\* A create panicked after it had put its identifier in the table, and a
\* lookup of that identifier was answered with 500.
C15_Witness ==
    /\ poisoned
    /\ Hello \in DOMAIN data
    /\ \E t \in Threads :
          /\ pc[t] = "done"
          /\ command[t] = BrowseCmd(Hello)
          /\ result[t].tag = "InternalServerError"

\* C16: once a writer has panicked under the write guard, an upsert that
\* asks for the write lock returns an error value of its own kind, which is
\* neither the malformed-URL error nor "already registered", and leaves the
\* table as it was; it does not end without a result.
C16_UpsertAfterPoisonReturnsLockFailure ==
    [][\A t \in Threads :
        (poisoned /\ IsUpsert(command[t]) /\ pc[t] = "write" /\ pc'[t] = "done")
          => /\ result'[t].tag = "Err"
             /\ result'[t] # Err(AlreadyRegisteredMsg)
             /\ result'[t] # Err(MalformedUrl(<<"relative URL without a base">>))
             /\ data' = data]_vars

\* main's call of open_db returns.
Opens == opened = NoResult /\ opened' # NoResult

\* The non-empty sequences of entries with pairwise distinct identifiers
\* that a file of the model can hold.
KnownEntries ==
    LET pairs == AllIds \X ValidTargets
    IN  {<<e>> : e \in pairs}
            \cup {es \in {<<e, f>> : e \in pairs, f \in pairs} : es[1][1] # es[2][1]}

\* C17: when open_db runs on a file whose content is the lines of a
\* non-empty set of entries  identifier: "target", it returns Ok with a table
\* that holds exactly those entries, so that a lookup of each identifier
\* answers its target and of any other is not found, with the file attached
\* and its content as it was.
C17_BootstrapLoadsEntries ==
    [][(Opens /\ IsSome(database) /\ disk = "file")
        => \A es \in KnownEntries :
              log = EntryLines(es)
                => /\ opened' = Ok(<<>>)
                   /\ DOMAIN data' = {es[k][1] : k \in 1..Len(es)}
                   /\ \A k \in 1..Len(es) : Lookup(data', es[k][1]) = Found(es[k][2])
                   /\ \A i \in AllIds \ {es[k][1] : k \in 1..Len(es)} :
                         Lookup(data', i) = ErrorNotFound
                   /\ persistence'
                   /\ log' = log
                   /\ disk' = disk]_vars

\* The store was opened on a file of two entries, and the first request, a
\* lookup of one of them, was answered with its target.
C17_Witness ==
    /\ opened = Ok(<<>>)
    /\ log = EntryLine(Hello, Google) \o EntryLine(hash(Yahoo), Yahoo)
    /\ persistence
    /\ requests = 1
    /\ \E t \in Threads :
          /\ pc[t] = "done"
          /\ command[t] = BrowseCmd(Hello)
          /\ result[t] = Found(Google)

\* The file system refuses to open the configured path.
OpenRefused == IsSome(database) /\ disk = "denied"

\* The configured file opens, and its bytes are not text.
ReadRefused ==
    IsSome(database) /\ disk = "file" /\ Len(log) > 0 /\ log[1] = NotUtf8[1]

\* C18 as stated: when opening the database file fails, open_db succeeds
\* with an empty table and no persistence.
C18_OpenFailureGivesMemoryStore ==
    (OpenRefused /\ opened # NoResult)
      => /\ opened = Ok(<<>>)
         /\ ~persistence

\* C18, amended: when opening the database file fails, open_db returns the
\* error's text and no store is constructed, so no request is served.  When
\* the file opens and reading it fails, open_db succeeds with an empty table
\* and no persistence; upserts and lookups then work (none panics, the lock
\* is never poisoned), and the file stays as it was.
C18_ReadFailureGivesMemoryStore ==
    /\ (OpenRefused /\ opened # NoResult)
          => /\ opened = Err(<<"Permission denied (os error 13)">>)
             /\ data = EmptyMap
             /\ requests = 0
    /\ (ReadRefused /\ opened # NoResult)
          => /\ opened = Ok(<<>>)
             /\ ~persistence
             /\ requests = 0 => data = EmptyMap
             /\ log = NotUtf8
             /\ ~poisoned
             /\ \A t \in Threads :
                   /\ result[t].tag \notin {"Panic", "InternalServerError"}
                   /\ (IsUpsert(command[t]) /\ result[t].tag = "Ok")
                         => Lookup(data, id[t]).tag = "Found"

\* The store was opened on a file that cannot be read; a create succeeded
\* and a lookup found its target, with the file as it was.
C18_Witness ==
    /\ ReadRefused
    /\ opened = Ok(<<>>)
    /\ log = NotUtf8
    /\ \E t, u \in Threads :
          /\ command[t] = CreateShortUrl(Some(Hello))
          /\ result[t].tag = "Ok"
          /\ command[u] = BrowseCmd(Hello)
          /\ result[u] = Found(target[t])

\* C19: when the database file is not empty and its text is not a mapping
\* document, open_db returns an error whose text starts with "parse data: ",
\* and there is no store: no table is built, no file is attached, no request
\* is served, and the file stays as it was.
C19_BadDataIsParseError ==
    (IsSome(database) /\ disk = "file" /\ log = BadData /\ opened # NoResult)
      => /\ opened.tag = "Err"
         /\ Len(opened.body) = 2
         /\ opened.body[1] = "parse data: "
         /\ data = EmptyMap
         /\ ~persistence
         /\ requests = 0
         /\ \A t \in Threads : pc[t] = "idle"

\* open_db has returned the parse error.
C19_Witness ==
    /\ log = BadData
    /\ opened = Err(<<"parse data: ", "invalid type: string, expected a map">>)

\* C20: without a configured path open_db returns a store with an empty
\* table and no file, nothing is created, and no step of any request writes
\* a log.  With a path that names a missing or an empty file it returns a
\* store with an empty table and the file attached; a missing file has been
\* created, and opening never changes what a file holds.
C20_StartsEmpty ==
    [][/\ Opens => log' = log
       /\ (Opens /\ database = None)
            => /\ opened' = Ok(<<>>)
               /\ data' = EmptyMap
               /\ ~persistence'
               /\ disk' = disk
       /\ (Opens /\ IsSome(database) /\ disk \in {"missing", "file"} /\ log = <<>>)
            => /\ opened' = Ok(<<>>)
               /\ data' = EmptyMap
               /\ persistence'
               /\ disk' = "file"
       /\ database = None => (log' = <<>> /\ ~persistence' /\ disk' = "missing")]_vars

\* Without a configured path an upsert has succeeded, and there is neither
\* a file nor a log.
C20_Witness ==
    /\ database = None
    /\ opened = Ok(<<>>)
    /\ disk = "missing"
    /\ log = <<>>
    /\ \E t \in Threads :
          /\ IsUpsert(command[t])
          /\ result[t].tag = "Ok"
          /\ Database_get(data, id[t]) = Some(target[t])

\* The store a restart on the same file would serve.
Reopened == open_db(Some(Path), "file", log)

\* No write is in progress and none has failed.
AtRest == writers = {} /\ ~poisoned

\* C21: once every upsert sent to a store that started on an empty file has
\* been answered, the file parses as one key/value document and the store a
\* restart would open on it holds every identifier of the running store.
C21_RestartRoundTrip ==
    (persistence /\ AtRest) =>
        /\ from_str(log).err = None
        /\ Reopened.result.tag = "Ok"
        /\ DOMAIN data \subseteq DOMAIN Reopened.data

RECURSIVE Received(_, _)
\* The bytes of the first j chunks of a payload.
Received(payload, j) ==
    IF j = 0 THEN <<>> ELSE Received(payload, j - 1) \o payload[j]

\* The chunks at which the accumulated length exceeds MAX_SIZE.
Exceeding(payload) ==
    {j \in 1..Len(payload) : Len(Received(payload, j)) > MAX_SIZE}

\* The chunks the stream yields as errors.
Broken(payload) == {j \in 1..Len(payload) : payload[j] = PayloadError}

\* The body's length passes MAX_SIZE before the stream breaks, if it does.
Overflows(payload) ==
    \E j \in Exceeding(payload) : \A e \in Broken(payload) : j <= e

Answers(t) == pc[t] = "reading" /\ pc'[t] = "done"

\* The request arriving at thread t is rejected before the lock is taken.
RejectedOnArrival(t) == Arrives /\ Ready(t) /\ IsUpsert(command'[t]) /\ pc'[t] = "done"

\* C22: on a lock that is not poisoned, a GET of an identifier the table holds
\* is answered 302 with the stored target as Location, and a GET of one it
\* does not hold 404 "not found" without Location; a POST or PUT whose
\* upsert succeeds is answered 200; one that is rejected (its body breaks
\* off, is over MAX_SIZE or is not UTF-8, its target is no absolute URL, or
\* its identifier is already registered) is answered 400, and the table is
\* changed by no step that ends in a 400 and by none before the upsert is
\* decided.
C22_StatusFollowsOutcome ==
    [][\A t \in Threads :
        /\ (Answers(t) /\ ~poisoned) =>
                IF id[t] \in DOMAIN data
                THEN /\ StatusCode(result'[t]) = 302
                     /\ result'[t].location = Some(data[id[t]])
                ELSE /\ StatusCode(result'[t]) = 404
                     /\ result'[t].body = NotFoundMsg
                     /\ result'[t].location = None
        /\ (Completes(t) /\ ~poisoned') =>
                /\ StatusCode(result'[t]) = 200
                /\ id[t] \in DOMAIN data'
        /\ RejectedOnArrival(t) =>
                /\ StatusCode(result'[t]) = 400
                /\ data' = data
        /\ \A payload \in Payloads :
                (Arrives /\ Ready(t) /\ IsUpsert(command'[t])
                    /\ handle(t, command'[t], payload)) =>
                    ((\/ read_target(payload).tag = "Err"
                      \/ IsSome(UrlParse(read_target(payload).body)))
                        <=> RejectedOnArrival(t))
        /\ (Decides(t) /\ ~poisoned /\ command[t].op = "CreateShortUrl"
                /\ id[t] \in DOMAIN data) =>
                /\ StatusCode(result'[t]) = 400
                /\ result'[t].body = AlreadyRegisteredMsg
                /\ data' = data
        /\ (StatusCode(result'[t]) = 400 /\ result'[t] # result[t]) => data' = data
        /\ data' # data => \E u \in Threads : pc[u] \in {"match", "insert"}]_vars

\* A create of a registered identifier was answered 400 "already registered".
C22_Witness ==
    /\ Hello \in DOMAIN data
    /\ \E t \in Threads :
            /\ StatusCode(result[t]) = 400
            /\ result[t].body = AlreadyRegisteredMsg

\* C24: whenever no insertion is rewriting a slot, every identifier in the
\* table is a non-empty string and every target in the table parses as an
\* absolute URL, in a store that was given a database file to start from as
\* in one that started empty.
C24_TableHoldsAbsoluteUrls ==
    (Served /\ writers = {}) =>
        \A i \in DOMAIN data : Len(i) > 0 /\ UrlParse(data[i]) = None

\* C25: no step of a lookup or of an upsert, whether it succeeds, is rejected
\* or fails, takes an identifier out of the table; a lookup result "found"
\* is about an identifier the table still holds, and on a lock that is not
\* poisoned a lookup of an identifier the table holds answers "found".
C25_TableOnlyGrows ==
    [][/\ DOMAIN data \subseteq DOMAIN data'
       /\ \A t \in Threads :
            /\ result'[t].tag = "Found" => id'[t] \in DOMAIN data'
            /\ (Answers(t) /\ ~poisoned /\ id[t] \in DOMAIN data) =>
                    result'[t].tag = "Found"]_vars

\* Two identifiers are in the table and a lookup has found one of them.
C25_Witness ==
    /\ \E i, j \in DOMAIN data : i # j
    /\ \E t \in Threads : result[t].tag = "Found"

\* C26: a run of the client asks its Client for exactly one operation, the
\* one its options select: update_url(shorturl, target) with a target and
\* always_replace, create_new(shorturl, target) with a target and without
\* always_replace, get_long_url(shorturl) without a target; before the call
\* nothing has been asked for, and nothing else is asked for afterwards.
C26_OneOperationPerRun ==
    /\ cli_pc = "start" => calls = <<>>
    /\ cli_pc \in {"display", "open", "done"} =>
            /\ Len(calls) = 1
            /\ calls[1].shorturl = options.shorturl
            /\ calls[1].target = options.target
            /\ calls[1].op =
                    (IF options.target = None THEN "get_long_url"
                     ELSE IF options.always_replace THEN "update_url"
                     ELSE "create_new")

\* A run with a target and always_replace has returned.
C26_Witness ==
    /\ cli_pc = "done"
    /\ options.always_replace
    /\ IsSome(options.target)
    /\ calls = <<update_url(options.shorturl, options.target[1])>>

\* The identifier a line of the file is about: what precedes its first colon.
KeyOf(line) ==
    LET colon == IndexOf(line, ":", 1)
    IN  IF colon = 0 THEN line ELSE SubSeq(line, 1, colon - 1)

\* The identifiers of the lines of the file, line by line.
LogKeys ==
    LET lines == Lines(log, 1)
    IN  [k \in 1..Len(lines) |-> KeyOf(lines[k])]

\* The identifiers whose first insertion this run of the store has made.
AppliedIds == {applied[k][1] : k \in 1..Len(applied)}

\* C27: in a store with the file attached, opened on a file whose lines have
\* pairwise distinct identifiers, no two lines of the file are ever about
\* the same identifier: an identifier the store has inserted was inserted
\* once, and the identifiers the file started with are not among them.
C27_OneLinePerIdentifier ==
    (Served /\ persistence) =>
        LET keys == LogKeys
        IN  /\ \A j, k \in 1..Len(keys) : keys[j] = keys[k] => j = k
            /\ \A j, k \in 1..Len(applied) : applied[j][1] = applied[k][1] => j = k
            /\ \A k \in 1..(Len(keys) - Len(applied)) : keys[k] \notin AppliedIds

\* The store was opened on a file with a line for Hello, has since inserted
\* another identifier and overwritten Hello's target.
C27_Witness ==
    /\ Served
    /\ persistence
    /\ Len(LogKeys) = 2
    /\ LogKeys[1] = Hello
    /\ Len(applied) = 1
    /\ Database_get(data, Hello) = Some(Yahoo)

\* C28: in a store with the file attached in which no write has failed,
\* whenever no upsert holds the write lock the identifiers of the lines of
\* the file are the identifiers in the table, whether an identifier came
\* with the file, was inserted by a create, or was inserted by an update of
\* an identifier the table did not hold.
C28_LogIdsAreTableIds ==
    (Served /\ persistence /\ AtRest) =>
        LET keys == LogKeys
        IN  {keys[k] : k \in 1..Len(keys)} = DOMAIN data

\* An update has inserted Hello, which the table did not hold, and the file
\* has its line.
C28_Witness ==
    /\ Served
    /\ persistence
    /\ AtRest
    /\ applied = <<<<Hello, Yahoo>>>>
    /\ log = serialise_entry(Hello, Yahoo)
    /\ \E t \in Threads :
            /\ pc[t] = "done"
            /\ command[t] = UpdateShortUrl(Hello)
            /\ existing_value[t] = None
            /\ result[t].tag = "Ok"

\* C29: the file keeps, for every identifier, the first target inserted for
\* it.  A store opened on a file holds the file's entries; an insertion of
\* a new identifier adds its target to what a restart would load; an
\* insertion that overwrites an identifier changes what the running store
\* answers and nothing of what a restart would load, so that after an
\* overwrite with another target the two differ for that identifier.
C29_LogKeepsFirstTarget ==
    [][(Served' /\ persistence' /\ ~poisoned') =>
        /\ Opens => (log' = log /\ Reopened.data = data')
        /\ \A t \in Threads :
            Completes(t) =>
                LET restart == Reopened.data
                IN  /\ Database_get(data', id[t]) = Some(target[t])
                    /\ IF existing_value[t] = None
                       THEN /\ log' = log \o EntryLine(id[t], target[t])
                            /\ from_str(log \o EntryLine(id[t], target[t])).err = None
                            /\ from_str(log \o EntryLine(id[t], target[t])).map
                                    = HashMap_insert(restart, id[t], target[t])
                       ELSE /\ log' = log
                            /\ id[t] \in DOMAIN restart
                            /\ \A k \in 1..Len(applied) :
                                    applied[k][1] = id[t] => restart[id[t]] = applied[k][2]
                            /\ (restart[id[t]] # target[t]) =>
                                    Lookup(data', id[t]) # Lookup(restart, id[t])]_vars

\* Hello was created with one target and updated to another: the running
\* store answers the second, a restart would answer the first.
C29_Witness ==
    /\ Served
    /\ persistence
    /\ AtRest
    /\ applied = <<<<Hello, Google>>>>
    /\ Lookup(data, Hello) = Found(Yahoo)
    /\ Lookup(Reopened.data, Hello) = Found(Google)

\* C30: a write to the file that fails inside Database::insert fails while
\* the inserting thread holds the write lock and after the table took the
\* entry, and it poisons the lock for good: from then on no upsert is
\* answered with success or changes the table or the file, and every lookup
\* that is answered gets the lock failure, a lookup of the identifier just
\* inserted included.
C30_FailedWritePoisonsForGood ==
    [][/\ \A t \in Threads :
            WriteFails(t) =>
                /\ t \in writers
                /\ ~poisoned
                /\ poisoned'
                /\ Database_get(data', id[t]) = Some(target[t])
                /\ result'[t] = Panicked
                /\ BrowseOutcome(poisoned', Database_get(data', id[t]))
                        = ErrorInternalServerError(PoisonMsg)
       /\ poisoned =>
            /\ poisoned'
            /\ data' = data
            /\ log' = log
            /\ \A t \in Threads :
                    /\ result'[t].tag = "Ok" => result'[t] = result[t]
                    /\ result'[t].tag \in {"Found", "NotFound"} => result'[t] = result[t]
                    /\ Answers(t) => result'[t] = ErrorInternalServerError(PoisonMsg)
                    /\ (IsUpsert(command[t]) /\ pc[t] = "write" /\ pc'[t] # "write") =>
                            result'[t] = Panicked]_vars

\* After a failed write an upsert has panicked at the lock and a lookup of
\* the identifier the failed insertion left in the table was answered 500.
C30_Witness ==
    /\ poisoned
    /\ \E t, u \in Threads :
            /\ pc[t] = "done" /\ IsUpsert(command[t]) /\ result[t] = Panicked
            /\ pc[u] = "done" /\ command[u].op = "browse"
            /\ id[u] \in DOMAIN data
            /\ result[u] = ErrorInternalServerError(PoisonMsg)

====
